---- MODULE Spec2Model ----
(***************************************************************************)
(* Model of lightflow/models/task.py: the execution wrapper BaseTask._run  *)
(* that mediates between user task logic (BaseTask.run, overridden by the  *)
(* task's author) and the scheduler, and the task descriptor BaseTask with *)
(* its state, skip flag and job handle.                                    *)
(*                                                                         *)
(* Payloads (MultiTaskData) are objects with identity: they live in a heap *)
(* and are referred to by their index, so that "the same payload" and an   *)
(* in-place mutation of a payload's task history are both expressible.     *)
(***************************************************************************)
EXTENDS Naturals, Sequences, FiniteSets

VARIABLES heap, last, desc

vars == <<heap, last, desc>>

\* ----------------------------------------------------------------- bounds
\* Longest task history a payload is allowed to reach.
MaxHist == 2

\* Largest number of forget() calls counted on one job handle.
MaxForgets == 2

\* ------------------------------------------------------------ vocabulary
\* The tasks (descriptors) of the DAG, identified by their name.
TaskNames == {"t1", "t2"}

\* The reference that stands for Python's None where a payload is expected.
NoData == 0

\* How a callback argument of _run behaves: not supplied (None), supplied
\* and returning normally, supplied and raising an ordinary error.
CallbackKinds == {"absent", "returns", "raises"}

\* The callback arguments of one invocation: every combination of absent
\* and normally returning callbacks, and the combinations in which one
\* callback raises while the other two return normally.
Callbacks ==
    {cb \in [success : CallbackKinds, stop : CallbackKinds, abort : CallbackKinds] :
        LET raising == {k \in {"success", "stop", "abort"} : cb[k] = "raises"}
            missing == {k \in {"success", "stop", "abort"} : cb[k] = "absent"}
        IN  raising = {} \/ (Cardinality(raising) = 1 /\ missing = {})}

\* Python's None as a value of `result`.
None == [tag |-> "None"]

\* The limit of an Action: absent (None) or a present collection of names.
NoLimit == [has |-> FALSE, names |-> {}]

Limit(names) == [has |-> TRUE, names |-> names]

Limits == {NoLimit, Limit({}), Limit({"t2"})}

\* Action(data, limit=None): the result value, a payload reference plus an
\* optional successor restriction.
Action(data, limit) == [tag |-> "Action", data |-> data, limit |-> limit]

\* Values that are present but are not an Action (42, and the falsy 0).
InvalidValues == {[tag |-> "Int", v |-> 42], [tag |-> "Int", v |-> 0]}

\* The control-flow signals of lightflow.models.exceptions.
StopTask(skip) == [type |-> "StopTask", skip_successors |-> skip]

AbortWorkflow == [type |-> "AbortWorkflow", skip_successors |-> FALSE]

OtherError == [type |-> "Error", skip_successors |-> FALSE]

NoException == [type |-> "None", skip_successors |-> FALSE]

\* -------------------------------------------------------------- payloads
\* MultiTaskData(name): a fresh payload scoped to the given name, with an
\* empty task history and untouched working data.
MultiTaskData(name) == [scope |-> name, history |-> <<>>, touched |-> FALSE]

\* data.add_task_history(name) on the payload at reference d: appends the
\* name to that payload's history, in place.
add_task_history(h, d, name) == [h EXCEPT ![d].history = Append(@, name)]

\* Allocation of a new payload object; returns the new heap (the reference
\* of the new object is Len(h) + 1).
Alloc(h, payload) == Append(h, payload)

\* ------------------------------------------------------------ user logic
\* What one call of the task's run() does, as chosen by the task's author:
\*   touch  - mutates the working data of the payload it was given;
\*   kind   - "none" (returns nothing), "action" (returns an Action),
\*            "invalid" (returns a non-Action value), "stop", "abort",
\*            "error" (raises an error that is neither Stop nor Abort);
\*   fresh  - the returned Action wraps a payload created by run() rather
\*            than the payload it was given;
\*   limit  - the limit of the returned Action;
\*   value  - the non-Action value returned;
\*   skip   - the skip_successors flag of the raised StopTask.
BehavioursOf(t) ==
    LET base == [touch |-> t, kind |-> "none", fresh |-> FALSE, limit |-> NoLimit,
                 value |-> None, skip |-> FALSE]
    IN  {base}
        \cup {[base EXCEPT !.kind = "action", !.fresh = f, !.limit = l] :
                  f \in BOOLEAN, l \in Limits}
        \cup {[base EXCEPT !.kind = "invalid", !.value = v] : v \in InvalidValues}
        \cup {[base EXCEPT !.kind = "stop", !.skip = s] : s \in BOOLEAN}
        \cup {[base EXCEPT !.kind = "abort"]}
        \cup {[base EXCEPT !.kind = "error"]}

Behaviours == UNION {BehavioursOf(t) : t \in BOOLEAN}

\* self.run(data, store, signal, context): the effect of the user logic on
\* the heap, the value it returns and the exception it raises.
run(h, self, data, b) ==
    LET h1 == IF b.touch THEN [h EXCEPT ![data].touched = TRUE] ELSE h
        h2 == IF b.kind = "action" /\ b.fresh THEN Alloc(h1, MultiTaskData(self)) ELSE h1
        target == IF b.fresh THEN Len(h2) ELSE data
    IN  [heap   |-> h2,
         value  |-> CASE b.kind = "action"  -> Action(target, b.limit)
                      [] b.kind = "invalid" -> b.value
                      [] OTHER              -> None,
         raised |-> CASE b.kind = "stop"  -> StopTask(b.skip)
                      [] b.kind = "abort" -> AbortWorkflow
                      [] b.kind = "error" -> OtherError
                      [] OTHER            -> NoException]

\* --------------------------------------------------------------- events
\* What the wrapper calls on its collaborators, in order.
Event(ev, exc) == [ev |-> ev, exc |-> exc]

\* A call of a callback: nothing when the callback is not supplied.
Call(cb, ev, exc) == IF cb = "absent" THEN <<>> ELSE <<Event(ev, exc)>>

\* ---------------------------------------------------------- BaseTask._run
\* Lines 206-207 with MultiTaskData() constructed without the task's name.
DefaultData_Unscoped(h, self, data) ==
    IF data = NoData
    THEN [heap |-> Alloc(h, MultiTaskData("")), data |-> Len(h) + 1]
    ELSE [heap |-> h, data |-> data]

\* Lines 206-207: an absent payload is replaced by a fresh one scoped to the
\* task's own name.  Returns the heap and the reference `data` now holds.
DefaultData(h, self, data) ==
    IF data = NoData
    THEN [heap |-> Alloc(h, MultiTaskData(self)), data |-> Len(h) + 1]
    ELSE [heap |-> h, data |-> data]

\* Line 220 with the flag ignored: the stop path never restricts successors.
StopResult_IgnoresFlag(data, err) == None

\* Line 220 with the flag ignored the other way: every stop skips the
\* successors.
StopResult_AlwaysSkips(data, err) == Action(data, Limit({}))

\* Line 220: the candidate result of the stop path.
StopResult(data, err) ==
    IF err.skip_successors THEN Action(data, Limit({})) ELSE None

\* Lines 212-213 with the type check of line 233 moved in front of the
\* callback: success_callback fires only for a valid return value.
OnReturn_ValidatesFirst(cb, value) ==
    [log    |-> IF value.tag \in {"None", "Action"}
                THEN Call(cb.success, "success_callback", NoException) ELSE <<>>,
     error  |-> IF cb.success = "raises" /\ value.tag \in {"None", "Action"}
                THEN "CallbackError" ELSE "none",
     result |-> value]

\* Lines 212-213: the success path after run() returned.
OnReturn(cb, value) ==
    [log    |-> Call(cb.success, "success_callback", NoException),
     error  |-> IF cb.success = "raises" THEN "CallbackError" ELSE "none",
     result |-> value]

\* Lines 216-220 with the call of line 228 copied into the stop handler.
OnStop_SignalsWorkflow(cb, data, err) ==
    [log    |-> Call(cb.stop, "stop_callback", err)
                \o (IF cb.stop = "raises" THEN <<>>
                    ELSE <<Event("stop_workflow", NoException)>>),
     error  |-> IF cb.stop = "raises" THEN "CallbackError" ELSE "none",
     result |-> IF cb.stop = "raises" THEN None ELSE StopResult(data, err)]

\* Lines 216-220 with stop_callback called without the raised signal.
OnStop_DropsSignal(cb, data, err) ==
    [log    |-> Call(cb.stop, "stop_callback", NoException),
     error  |-> IF cb.stop = "raises" THEN "CallbackError" ELSE "none",
     result |-> IF cb.stop = "raises" THEN None ELSE StopResult(data, err)]

\* Lines 216-220: the handler of StopTask.
OnStop(cb, data, err) ==
    [log    |-> Call(cb.stop, "stop_callback", err),
     error  |-> IF cb.stop = "raises" THEN "CallbackError" ELSE "none",
     result |-> IF cb.stop = "raises" THEN None ELSE StopResult(data, err)]

\* Lines 223-228 with line 228 moved in front of the callback.
OnAbort_SignalFirst(cb, err) ==
    [log    |-> <<Event("stop_workflow", NoException)>>
                \o Call(cb.abort, "abort_callback", err),
     error  |-> IF cb.abort = "raises" THEN "CallbackError" ELSE "none",
     result |-> None]

\* Lines 223-228 without line 228: the workflow is never told to stop.
OnAbort_NoSignal(cb, err) ==
    [log    |-> Call(cb.abort, "abort_callback", err),
     error  |-> IF cb.abort = "raises" THEN "CallbackError" ELSE "none",
     result |-> None]

\* Lines 223-228: the handler of AbortWorkflow.  signal.stop_workflow() is
\* reached only when the callback did not raise.
OnAbort(cb, err) ==
    [log    |-> Call(cb.abort, "abort_callback", err)
                \o (IF cb.abort = "raises" THEN <<>>
                    ELSE <<Event("stop_workflow", NoException)>>),
     error  |-> IF cb.abort = "raises" THEN "CallbackError" ELSE "none",
     result |-> None]

\* Lines 209-228 with a bare except clause in place of line 223: every
\* error is handled like AbortWorkflow.
TryBlock_CatchAll(cb, data, r) ==
    CASE r.raised.type = "None"          -> OnReturn(cb, r.value)
      [] r.raised.type = "StopTask"      -> OnStop(cb, data, r.raised)
      [] OTHER                           -> OnAbort(cb, r.raised)

\* Lines 209-228 without the clause of line 223: AbortWorkflow leaves the
\* wrapper like any other error.
TryBlock_AbortEscapes(cb, data, r) ==
    CASE r.raised.type = "None"          -> OnReturn(cb, r.value)
      [] r.raised.type = "StopTask"      -> OnStop(cb, data, r.raised)
      [] OTHER -> [log |-> <<>>, error |-> r.raised.type, result |-> None]

\* Lines 209-228: the try statement.  An exception that is neither StopTask
\* nor AbortWorkflow matches no except clause and leaves the wrapper.
TryBlock(cb, data, r) ==
    CASE r.raised.type = "None"          -> OnReturn(cb, r.value)
      [] r.raised.type = "StopTask"      -> OnStop(cb, data, r.raised)
      [] r.raised.type = "AbortWorkflow" -> OnAbort(cb, r.raised)
      [] OTHER -> [log |-> <<>>, error |-> "Error", result |-> None]

\* Lines 230-237 with the history of the returned payload started afresh.
Normalise_ResetsHistory(h, self, data, result) ==
    IF result = None
    THEN [heap |-> h, status |-> "returned", error |-> "none",
          result |-> Action(data, NoLimit)]
    ELSE IF result.tag # "Action"
         THEN [heap |-> h, status |-> "raised", error |-> "TaskReturnActionInvalid",
               result |-> None]
         ELSE [heap |-> [h EXCEPT ![result.data].history = <<self>>],
               status |-> "returned", error |-> "none", result |-> result]

\* Lines 230-237 with `if not result` for `if result is None`: a falsy
\* return value is taken for an absent one.
Normalise_Truthiness(h, self, data, result) ==
    IF result = None \/ result = [tag |-> "Int", v |-> 0]
    THEN [heap |-> h, status |-> "returned", error |-> "none",
          result |-> Action(data, NoLimit)]
    ELSE IF result.tag # "Action"
         THEN [heap |-> h, status |-> "raised", error |-> "TaskReturnActionInvalid",
               result |-> None]
         ELSE [heap |-> add_task_history(h, result.data, self), status |-> "returned",
               error |-> "none", result |-> result]

\* Lines 230-237 with line 236 written as data.add_task_history: the name
\* goes to the incoming payload instead of the returned one.
Normalise_HistoryOnInput(h, self, data, result) ==
    IF result = None
    THEN [heap |-> h, status |-> "returned", error |-> "none",
          result |-> Action(data, NoLimit)]
    ELSE IF result.tag # "Action"
         THEN [heap |-> h, status |-> "raised", error |-> "TaskReturnActionInvalid",
               result |-> None]
         ELSE [heap |-> add_task_history(h, data, self), status |-> "returned",
               error |-> "none", result |-> result]

\* Lines 230-237: normalisation of the candidate result.
Normalise(h, self, data, result) ==
    IF result = None
    THEN [heap |-> h, status |-> "returned", error |-> "none",
          result |-> Action(data, NoLimit)]
    ELSE IF result.tag # "Action"
         THEN [heap |-> h, status |-> "raised", error |-> "TaskReturnActionInvalid",
               result |-> None]
         ELSE [heap |-> add_task_history(h, result.data, self), status |-> "returned",
               error |-> "none", result |-> result]

\* ------------------------------------------------------------ descriptor
\* Lines 7-14: the lifecycle tags.
TaskState ==
    [Init |-> 1, Waiting |-> 2, Running |-> 3, Completed |-> 4, Stopped |-> 5, Aborted |-> 6]

\* The values a caller may write to the state property.
TaskStates == {TaskState[k] : k \in DOMAIN TaskState}

\* The queue classes (JobType); "task" is the default of line 22.
JobTypes == {"task", "dag"}

\* self._celery_result when no job handle is attached (None).
NoHandle == [attached |-> FALSE, state |-> "", forgets |-> 0]

\* A job handle as returned by the queuing call: its raw state string and
\* the number of forget() calls it has received.
Handle(state, forgets) == [attached |-> TRUE, state |-> state, forgets |-> forgets]

\* The raw state strings of a job handle.
HandleStates == {"PENDING", "STARTED", "SUCCESS", "FAILURE"}

\* handle.ready(): the job has reached a terminal state.
ready(handle) == handle.state \in {"SUCCESS", "FAILURE"}

\* handle.failed(): the job has terminated abnormally.
failed(handle) == handle.state = "FAILURE"

\* handle.forget(): releases the stored result; a repeated call releases
\* nothing more.  The handle's state string is left as it is.
forget(handle) == [handle EXCEPT !.forgets = @ + 1]

\* Lines 22-43: the constructor.
BaseTask(name, queue, force_run, propagate_skip) ==
    [_name |-> name, _queue |-> queue, _force_run |-> force_run,
     _propagate_skip |-> propagate_skip,
     _skip |-> FALSE, _state |-> TaskState.Init, _celery_result |-> NoHandle]

\* The constructor arguments tried: the defaults of line 22 and their
\* opposites, for each task name.
ConstructorArgs ==
    {[name |-> n, queue |-> "task", force_run |-> FALSE, propagate_skip |-> TRUE] :
        n \in TaskNames}
    \cup {[name |-> n, queue |-> "dag", force_run |-> TRUE, propagate_skip |-> FALSE] :
        n \in TaskNames}

\* Lines 45-63: the read-only accessors.
name(d) == d._name

queue(d) == d._queue

has_to_run(d) == d._force_run

propagate_skip(d) == d._propagate_skip

\* Lines 90-93 and 104-107: the readers of the two writable fields.
is_skipped(d) == d._skip

state(d) == d._state

\* Lines 158-161.
celery_result(d) == d._celery_result

\* Lines 150-156.
has_celery_result(d) == celery_result(d) # NoHandle

\* Lines 118-124 with the default of the else branch inverted: a task that
\* was never queued counts as pending.
celery_pending_DefaultTrue(d) ==
    IF has_celery_result(d) THEN celery_result(d).state = "PENDING" ELSE TRUE

\* Lines 118-124.
celery_pending(d) ==
    IF has_celery_result(d) THEN celery_result(d).state = "PENDING" ELSE FALSE

\* Lines 126-132.
celery_completed(d) ==
    IF has_celery_result(d) THEN ready(celery_result(d)) ELSE FALSE

\* Lines 134-140.
celery_failed(d) ==
    IF has_celery_result(d) THEN failed(celery_result(d)) ELSE FALSE

\* Lines 142-148.
celery_state(d) ==
    IF has_celery_result(d) THEN celery_result(d).state ELSE "NOT_QUEUED"

\* Lines 172-175 without the guard of line 174: forget() is called on None.
clear_Unguarded(d) ==
    IF has_celery_result(d)
    THEN [desc |-> [d EXCEPT !._celery_result = forget(@)], error |-> "none"]
    ELSE [desc |-> d, error |-> "AttributeError"]

\* Lines 172-175 with the handle dropped after forget().
clear_Detaches(d) ==
    IF has_celery_result(d)
    THEN [desc |-> [d EXCEPT !._celery_result = NoHandle], error |-> "none"]
    ELSE [desc |-> d, error |-> "none"]

\* Lines 172-175 as a function of the descriptor: the descriptor afterwards
\* and whether the call raised.
clear(d) ==
    IF has_celery_result(d)
    THEN [desc |-> [d EXCEPT !._celery_result = forget(@)], error |-> "none"]
    ELSE [desc |-> d, error |-> "none"]

\* The record kept of the latest invocation of the wrapper.
Invocation(h, self, arg, cb, b, d, r, t, n) ==
    [self    |-> self,        \* the task whose wrapper ran
     arg     |-> arg,         \* the `data` argument (NoData when absent)
     cb      |-> cb,          \* the three callback arguments
     b       |-> b,           \* what the user logic did
     before  |-> h,           \* the heap when the wrapper was called
     data    |-> d.data,      \* the payload handed to the user logic
     given   |-> d.heap,      \* the heap when the user logic was called
     value   |-> r.value,     \* the value the user logic returned
     raised  |-> r.raised,    \* the signal the user logic raised
     ran     |-> r.heap,      \* the heap when the user logic finished
     log     |-> t.log,       \* the calls the wrapper made, in order
     status  |-> IF t.error # "none" THEN "raised" ELSE n.status,
     error   |-> IF t.error # "none" THEN t.error ELSE n.error,
     result  |-> IF t.error # "none" THEN None ELSE n.result]

\* No invocation is in the record: the scheduler has consumed the last one.
NoInvocation ==
    [self |-> "t1", arg |-> NoData,
     cb |-> [success |-> "absent", stop |-> "absent", abort |-> "absent"],
     b |-> [touch |-> FALSE, kind |-> "none", fresh |-> FALSE, limit |-> NoLimit,
            value |-> None, skip |-> FALSE],
     before |-> <<>>, data |-> NoData, given |-> <<>>, value |-> None,
     raised |-> NoException, ran |-> <<>>,
     log |-> <<>>, status |-> "idle", error |-> "none", result |-> None]

\* Lines 177-237 as a function of the heap and the arguments: the heap the
\* wrapper leaves behind and the record of what it did.  An error raised in
\* the try statement skips the normalisation.
Wrapper(h, self, arg, cb, b) ==
    LET d == DefaultData(h, self, arg)
        r == run(d.heap, self, d.data, b)
        t == TryBlock(cb, d.data, r)
        n == Normalise(r.heap, self, d.data, t.result)
    IN  [heap |-> IF t.error # "none" THEN r.heap ELSE n.heap,
         inv  |-> Invocation(h, self, arg, cb, b, d, r, t, n)]

\* Lines 177-237 with the stop handler flagging the task itself as skipped.
_run_SetsSkip(self, arg, cb, b) ==
    LET w == Wrapper(heap, self, arg, cb, b)
    IN  /\ last.status = "idle"
        /\ \A i \in 1..Len(w.heap) : Len(w.heap[i].history) <= MaxHist
        /\ heap' = w.heap
        /\ last' = w.inv
        /\ desc' = [desc EXCEPT !._skip = @ \/ (b.kind = "stop" /\ b.skip)]

\* One invocation of the wrapper of task `self`, from the call to the return
\* or the raise.
_run(self, arg, cb, b) ==
    LET w == Wrapper(heap, self, arg, cb, b)
    IN  /\ last.status = "idle"
        /\ \A i \in 1..Len(w.heap) : Len(w.heap[i].history) <= MaxHist
        /\ heap' = w.heap
        /\ last' = w.inv
        /\ UNCHANGED desc

Init ==
    /\ heap = <<>>
    /\ last = NoInvocation
    /\ desc = BaseTask("t1", "task", FALSE, TRUE)

\* The scheduler consumes the outcome of the invocation: the payload of the
\* returned Action is what the successor task will be handed, every other
\* payload of the invocation is dropped; after a raised error the workflow
\* run is over and the next invocation belongs to a new run.
Handoff ==
    /\ last.status # "idle"
    /\ heap' = IF last.status = "returned" THEN <<heap[last.result.data]>> ELSE <<>>
    /\ last' = NoInvocation
    /\ UNCHANGED desc

Next ==
    \/ \E self \in TaskNames, arg \in {NoData} \cup (1..Len(heap)), cb \in Callbacks, b \in Behaviours :
           _run(self, arg, cb, b)
    \/ Handoff

Spec == Init /\ [][Next]_vars

\* ------------------------------------------------ the descriptor's life
\* Lines 109-116: the state setter stores whatever it is given.
state_setter(s) ==
    /\ last.status = "idle"
    /\ desc' = [desc EXCEPT !._state = s]
    /\ UNCHANGED <<heap, last>>

\* Lines 95-102 with the value stored in the propagation policy instead.
is_skipped_setter_WritesPolicy(value) ==
    /\ last.status = "idle"
    /\ desc' = [desc EXCEPT !._propagate_skip = value]
    /\ UNCHANGED <<heap, last>>

\* Lines 95-102 with the skip flag also recorded in the lifecycle state.
is_skipped_setter_WritesState(value) ==
    /\ last.status = "idle"
    /\ desc' = [desc EXCEPT !._skip = value,
                            !._state = IF value THEN TaskState.Stopped ELSE @]
    /\ UNCHANGED <<heap, last>>

\* Lines 95-102: the skip setter.
is_skipped_setter(value) ==
    /\ last.status = "idle"
    /\ desc' = [desc EXCEPT !._skip = value]
    /\ UNCHANGED <<heap, last>>

\* Lines 163-170: the handle setter; the result may be None.
celery_result_setter(result) ==
    /\ last.status = "idle"
    /\ desc' = [desc EXCEPT !._celery_result = result]
    /\ UNCHANGED <<heap, last>>

\* Lines 172-175: discard.
clear_celery_result ==
    /\ last.status = "idle"
    /\ clear(desc).error = "none"
    /\ desc._celery_result.forgets < MaxForgets
    /\ desc' = clear(desc).desc
    /\ UNCHANGED <<heap, last>>

\* The job queue moves the attached job on: PENDING, STARTED, then SUCCESS
\* or FAILURE.
HandleProgress ==
    /\ last.status = "idle"
    /\ has_celery_result(desc)
    /\ \E s \in HandleStates :
          /\ \/ desc._celery_result.state = "PENDING" /\ s = "STARTED"
             \/ desc._celery_result.state = "STARTED" /\ s \in {"SUCCESS", "FAILURE"}
          /\ desc' = [desc EXCEPT !._celery_result.state = s]
    /\ UNCHANGED <<heap, last>>

\* The scheduler has consumed the outcome of the invocation; the Action and
\* the payloads of the invocation are destroyed.
Release ==
    /\ last.status # "idle"
    /\ heap' = <<>>
    /\ last' = NoInvocation
    /\ UNCHANGED desc

\* The callbacks tried on a descriptor's wrapper: none, or all three.
DescCallbacks ==
    {[success |-> k, stop |-> k, abort |-> k] : k \in {"absent", "returns"}}

DescInit ==
    /\ heap = <<>>
    /\ last = NoInvocation
    /\ \E a \in ConstructorArgs :
          desc = BaseTask(a.name, a.queue, a.force_run, a.propagate_skip)

DescNext ==
    \/ \E s \in TaskStates : state_setter(s)
    \/ \E value \in BOOLEAN : is_skipped_setter(value)
    \/ \E result \in {NoHandle} \cup {Handle(s, 0) : s \in HandleStates} :
           celery_result_setter(result)
    \/ clear_celery_result
    \/ HandleProgress
    \/ \E cb \in DescCallbacks, b \in BehavioursOf(FALSE) : _run(desc._name, NoData, cb, b)
    \/ Release

DescSpec == DescInit /\ [][DescNext]_vars

\* --------------------------------------------------------- observations
\* The number of times the wrapper made the given call in the invocation.
Count(log, ev) == Cardinality({i \in DOMAIN log : log[i].ev = ev})

\* The callback calls of the invocation, in order.
CallbackCalls(log) == SelectSeq(log, LAMBDA e : e.ev # "stop_workflow")

\* The wrapper has finished an invocation (returned or raised).
Finished == last.status # "idle"

\* The payload the user logic was handed is the caller's payload, or, when
\* the caller passed none, a payload created for this invocation.
OriginalPayload ==
    IF last.arg # NoData
    THEN last.data = last.arg /\ last.given = last.before
    ELSE /\ last.data = Len(last.before) + 1
         /\ last.given = Append(last.before, MultiTaskData(last.self))

\* A well-formed Action over a payload that exists.
WellFormedAction(a) ==
    /\ a.tag = "Action"
    /\ a.data \in 1..Len(heap)
    /\ a.limit.has \in BOOLEAN
    /\ a.limit.names \subseteq TaskNames

\* ---------------------------------------------------------------- claims
\* C1: every invocation of the wrapper that returns an Action has appended
\* the task's name to the task history of the returned Action's payload,
\* whichever path it returned on (Action, nothing, Stop, Abort).
C1_HistoryAppendedOnEveryReturn ==
    last.status = "returned" =>
        LET p == last.result.data
        IN  heap[p].history = Append(last.ran[p].history, last.self)

\* C2 as stated: a present non-Action return value fires none of the three
\* callbacks and no stop_workflow; the only effect is the fatal
\* TaskReturnActionInvalid.
C2_NoCallbackOnInvalidReturn ==
    (Finished /\ last.b.kind = "invalid") => last.log = <<>>

\* C2 amended: a present non-Action return value fires neither stop_callback
\* nor abort_callback and no stop_workflow; success_callback, when supplied,
\* is called exactly once with no argument before the wrapper raises; no
\* Action is produced and no payload is changed by the wrapper.
C2_OnlySuccessCallbackOnInvalidReturn ==
    (Finished /\ last.b.kind = "invalid") =>
        /\ Count(last.log, "stop_callback") = 0
        /\ Count(last.log, "abort_callback") = 0
        /\ Count(last.log, "stop_workflow") = 0
        /\ last.log = Call(last.cb.success, "success_callback", NoException)
        /\ last.status = "raised"
        /\ last.result = None
        /\ heap = last.ran
        /\ (last.cb.success # "raises" => last.error = "TaskReturnActionInvalid")

\* An invalid value was returned while all three callbacks were supplied.
C2_Witness ==
    /\ last.status = "raised"
    /\ last.b.kind = "invalid"
    /\ last.cb = [success |-> "returns", stop |-> "returns", abort |-> "returns"]
    /\ Len(last.log) = 1

\* C3: for every present non-Action value returned normally the wrapper
\* raises TaskReturnActionInvalid (its callbacks returning normally),
\* produces no Action, and leaves every task history as it was when the user
\* logic returned.
C3_InvalidReturnRaises ==
    (Finished /\ last.b.kind = "invalid") =>
        /\ last.status = "raised"
        /\ last.result = None
        /\ \A p \in 1..Len(last.ran) : heap[p].history = last.ran[p].history
        /\ Len(heap) = Len(last.ran)
        /\ (last.cb.success # "raises" => last.error = "TaskReturnActionInvalid")

\* The falsy value 0 was returned for a payload that already has a history.
C3_Witness ==
    /\ last.b.kind = "invalid"
    /\ last.value = [tag |-> "Int", v |-> 0]
    /\ last.error = "TaskReturnActionInvalid"
    /\ last.arg # NoData
    /\ Len(heap[last.arg].history) > 0

\* C4: whenever the user logic raises Stop with skip_successors true (and
\* stop_callback is absent or returns normally) the wrapper returns an Action
\* whose limit is present and empty and whose payload is the original
\* incoming payload, or the payload created for an absent input, whatever
\* the user logic did before raising.
C4_StopSkipReturnsEmptyLimit ==
    (Finished /\ last.b.kind = "stop" /\ last.b.skip /\ last.cb.stop # "raises") =>
        /\ last.status = "returned"
        /\ last.result.tag = "Action"
        /\ last.result.limit.has
        /\ last.result.limit.names = {}
        /\ last.result.data = last.data
        /\ OriginalPayload

\* Stop(skip_successors=True) was raised after the user logic had changed the
\* working data of a payload passed in by the caller.
C4_Witness ==
    /\ last.status = "returned"
    /\ last.b.kind = "stop"
    /\ last.b.skip
    /\ last.b.touch
    /\ last.arg # NoData
    /\ last.result.data = last.arg

\* C5: whenever the user logic raises Stop with skip_successors false (and
\* stop_callback is absent or returns normally) the wrapper returns an Action
\* without limit over the original incoming payload, and payload, limit and
\* histories are those the wrapper produces for the same input when the user
\* logic returns nothing.
C5_StopNoSkipEqualsEmptyReturn ==
    (Finished /\ last.b.kind = "stop" /\ ~last.b.skip /\ last.cb.stop # "raises") =>
        /\ last.status = "returned"
        /\ last.result = Action(last.data, NoLimit)
        /\ OriginalPayload
        /\ \A cb \in Callbacks :
              cb.success # "raises" =>
                  LET w == Wrapper(last.before, last.self, last.arg, cb,
                                   [last.b EXCEPT !.kind = "none"])
                  IN  /\ w.inv.status = "returned"
                      /\ w.inv.result = last.result
                      /\ w.heap = heap

\* Stop(skip_successors=False) was raised with a stop_callback supplied, on a
\* payload that already carries a history.
C5_Witness ==
    /\ last.status = "returned"
    /\ last.b.kind = "stop"
    /\ ~last.b.skip
    /\ last.cb.stop = "returns"
    /\ last.arg # NoData
    /\ Len(heap[last.arg].history) > 0

\* C6: whenever the user logic raises Abort (and abort_callback is absent or
\* returns normally) signal.stop_workflow() is called exactly once in the
\* invocation and the wrapper returns an Action without limit over the
\* original incoming payload.
C6_AbortStopsWorkflowOnce ==
    (Finished /\ last.b.kind = "abort" /\ last.cb.abort # "raises") =>
        /\ Count(last.log, "stop_workflow") = 1
        /\ last.status = "returned"
        /\ last.result = Action(last.data, NoLimit)
        /\ OriginalPayload

\* Abort was raised with an abort_callback supplied and the wrapper returned.
C6_Witness ==
    /\ last.status = "returned"
    /\ last.b.kind = "abort"
    /\ last.cb.abort = "returns"
    /\ Len(last.log) = 2

\* C7: whenever the user logic returns Action(data = X, limit = L) (and
\* success_callback is absent or returns normally) the wrapper returns that
\* Action, limit unchanged, and X's history is the history X had when the
\* user logic returned followed by the task's name, once.
C7_ReturnedActionGetsHistory ==
    (Finished /\ last.b.kind = "action" /\ last.cb.success # "raises") =>
        /\ last.status = "returned"
        /\ last.result = last.value
        /\ last.result.limit = last.b.limit
        /\ LET X == last.value.data
           IN  heap[X].history = Append(last.ran[X].history, last.self)

\* The user logic returned an Action with a limit over a payload of its own
\* while the incoming payload already had a history.
C7_Witness ==
    /\ last.status = "returned"
    /\ last.b.kind = "action"
    /\ last.b.fresh
    /\ last.b.limit.has
    /\ last.arg # NoData
    /\ Len(heap[last.arg].history) > 0
    /\ heap[last.result.data].history = <<last.self>>

\* C8: signal.stop_workflow() is called only on the abort path: never in an
\* invocation in which the user logic returns normally (Action, nothing, an
\* invalid value) or raises Stop with either flag.
C8_StopWorkflowOnlyOnAbort ==
    (Finished /\ last.b.kind # "abort") => Count(last.log, "stop_workflow") = 0

\* Stop was raised with every callback supplied and nothing reached the
\* signal emitter.
C8_Witness ==
    /\ last.status = "returned"
    /\ last.b.kind = "stop"
    /\ last.cb = [success |-> "returns", stop |-> "returns", abort |-> "returns"]
    /\ Len(last.log) = 1

\* C9: with all three callbacks supplied and returning normally, exactly the
\* callback of the outcome taken fires, once: success_callback without
\* argument iff the user logic returned normally, stop_callback with the
\* raised signal iff it raised Stop, abort_callback with the raised signal
\* iff it raised Abort.
C9_ExactlyTheCallbackOfTheOutcome ==
    (Finished /\ last.cb = [success |-> "returns", stop |-> "returns", abort |-> "returns"]) =>
        CallbackCalls(last.log) =
            CASE last.raised.type = "None"          -> <<Event("success_callback", NoException)>>
              [] last.raised.type = "StopTask"      -> <<Event("stop_callback", last.raised)>>
              [] last.raised.type = "AbortWorkflow" -> <<Event("abort_callback", last.raised)>>
              [] OTHER                              -> <<>>

\* Abort was raised with all three callbacks supplied.
C9_Witness ==
    /\ last.status = "returned"
    /\ last.b.kind = "abort"
    /\ last.cb = [success |-> "returns", stop |-> "returns", abort |-> "returns"]
    /\ CallbackCalls(last.log) = <<Event("abort_callback", AbortWorkflow)>>

\* C10: a Stop or Abort raised by the user logic (callbacks absent or
\* returning normally) never leaves the wrapper as an error: the wrapper
\* returns a well-formed Action.
C10_StopAndAbortNeverSurface ==
    (/\ Finished
     /\ last.b.kind \in {"stop", "abort"}
     /\ \A k \in {"success", "stop", "abort"} : last.cb[k] # "raises") =>
        /\ last.status = "returned"
        /\ last.error = "none"
        /\ WellFormedAction(last.result)

\* Abort was raised with no callback supplied and the wrapper returned.
C10_Witness ==
    /\ last.status = "returned"
    /\ last.b.kind = "abort"
    /\ last.cb = [success |-> "absent", stop |-> "absent", abort |-> "absent"]
    /\ last.raised = AbortWorkflow

\* ------------------------------------------------ claims on the descriptor
\* The lifecycle graph Init -> Waiting -> Running -> {Completed | Stopped |
\* Aborted}: b is a or lies further along the graph than a.
Forward(a, b) ==
    \/ a = b
    \/ a < b /\ a \in {TaskState.Init, TaskState.Waiting, TaskState.Running}

\* C11 as stated: the descriptor starts in Init and under any sequence of
\* operations (state writes included) its state only moves forward along
\* the lifecycle graph.
C11_StateOnlyMovesForward ==
    [][Forward(desc._state, desc'._state)]_vars

\* C11 amended: the descriptor starts in Init and its state is changed by
\* nothing but a state write, which stores the value given and touches no
\* other field; skip writes, handle attach and discard, and wrapper
\* invocations leave the state as it is.
C11_StateChangesOnlyByStateWrite ==
    /\ desc._state = TaskState.Init
    /\ [][desc'._state # desc._state =>
            /\ desc' = [desc EXCEPT !._state = desc'._state]
            /\ UNCHANGED <<heap, last>>]_vars

\* The wrapper returned for a descriptor that was written to Running, is
\* flagged as skipped and has had its job result discarded once.
C11_Witness ==
    /\ desc._state = TaskState.Running
    /\ desc._skip
    /\ desc._celery_result.forgets = 1
    /\ last.status = "returned"

\* C12: with no job handle attached the derived status reads pending =
\* false, completed = false, failed = false and label "NOT_QUEUED", without
\* raising; with a handle attached pending is true iff the handle's state is
\* PENDING, completed and failed are the handle's ready() and failed()
\* answers, and the label is the handle's raw state string.
C12_DerivedStatusReadsThrough ==
    IF ~desc._celery_result.attached
    THEN /\ celery_pending(desc) = FALSE
         /\ celery_completed(desc) = FALSE
         /\ celery_failed(desc) = FALSE
         /\ celery_state(desc) = "NOT_QUEUED"
    ELSE /\ celery_pending(desc) = (desc._celery_result.state = "PENDING")
         /\ celery_completed(desc) = ready(desc._celery_result)
         /\ celery_failed(desc) = failed(desc._celery_result)
         /\ celery_state(desc) = desc._celery_result.state

\* A handle is attached whose job has failed: completed and failed read
\* true, pending false.
C12_Witness ==
    /\ desc._celery_result.attached
    /\ celery_state(desc) = "FAILURE"
    /\ celery_completed(desc)
    /\ celery_failed(desc)
    /\ ~celery_pending(desc)

\* What a descriptor shows of itself, the discarded result of its handle
\* counted as discarded or not.
Observable(d) ==
    [d EXCEPT !._celery_result.forgets = IF @ > 0 THEN 1 ELSE 0]

\* C13: discard never errors and is idempotent: without a handle it changes
\* nothing; with a handle a second call in a row succeeds and leaves the
\* descriptor as the first call left it.
C13_DiscardIdempotent ==
    LET once  == clear(desc)
        twice == clear(once.desc)
    IN  /\ once.error = "none"
        /\ twice.error = "none"
        /\ ~desc._celery_result.attached => once.desc = desc /\ twice.desc = desc
        /\ desc._celery_result.attached => Observable(twice.desc) = Observable(once.desc)

\* Discard has been called twice on a descriptor with a handle attached.
C13_Witness ==
    /\ desc._celery_result.attached
    /\ desc._celery_result.forgets = 2

\* C16: name, queue, force_run and propagate_skip keep the values given at
\* construction: no state write, skip write, handle attach, discard or
\* wrapper invocation changes them.
C16_IdentityFieldsImmutable ==
    [][/\ name(desc') = name(desc)
       /\ queue(desc') = queue(desc)
       /\ has_to_run(desc') = has_to_run(desc)
       /\ propagate_skip(desc') = propagate_skip(desc)]_vars

\* A descriptor built with non-default arguments has been written to
\* Aborted, flagged as skipped, given a handle, and its wrapper has run the
\* abort path.
C16_Witness ==
    /\ desc._name = "t2"
    /\ desc._queue = "dag"
    /\ desc._force_run
    /\ ~desc._propagate_skip
    /\ desc._state = TaskState.Aborted
    /\ desc._skip
    /\ desc._celery_result.attached
    /\ last.status = "returned"
    /\ last.b.kind = "abort"

\* C18: the wrapper does not write the descriptor's runtime fields: invoked
\* without callbacks it leaves state, skip flag and job handle as they were,
\* on every outcome path.
C18_WrapperLeavesDescriptorAlone ==
    [][(/\ last.status = "idle"
        /\ last'.status # "idle"
        /\ last'.cb = [success |-> "absent", stop |-> "absent", abort |-> "absent"]) =>
           /\ desc'._state = desc._state
           /\ desc'._skip = desc._skip
           /\ desc'._celery_result = desc._celery_result]_vars

\* Stop(skip_successors=True) was raised without callbacks in the wrapper of
\* a running, unskipped descriptor with a handle attached.
C18_Witness ==
    /\ last.status = "returned"
    /\ last.b.kind = "stop"
    /\ last.b.skip
    /\ last.cb = [success |-> "absent", stop |-> "absent", abort |-> "absent"]
    /\ desc._state = TaskState.Running
    /\ ~desc._skip
    /\ desc._celery_result.attached

\* C19: discard does not detach the job handle: after it the descriptor
\* still has a handle, the status label is still the handle's state string,
\* and a further discard reaches the handle again; a handle is detached only
\* by a write of an absent handle.
C19_DiscardKeepsHandle ==
    /\ [](desc._celery_result.attached =>
            LET once  == clear(desc).desc
                twice == clear(once).desc
            IN  /\ has_celery_result(once)
                /\ celery_state(once) = once._celery_result.state
                /\ celery_state(once) # "NOT_QUEUED"
                /\ once._celery_result.forgets = desc._celery_result.forgets + 1
                /\ twice._celery_result.forgets = desc._celery_result.forgets + 2)
    /\ [][(has_celery_result(desc) /\ ~has_celery_result(desc')) =>
            /\ desc' = [desc EXCEPT !._celery_result = NoHandle]
            /\ desc' # clear(desc).desc
            /\ UNCHANGED <<heap, last>>]_vars

\* The result of a finished job has been discarded twice and the handle is
\* still attached.
C19_Witness ==
    /\ has_celery_result(desc)
    /\ celery_state(desc) = "SUCCESS"
    /\ desc._celery_result.forgets = 2

\* ------------------------------------------- further claims on the wrapper
\* s is an initial segment of t.
IsPrefix(s, t) == Len(s) <= Len(t) /\ SubSeq(t, 1, Len(s)) = s

\* C14: with an absent incoming payload the user logic is called with a
\* freshly constructed payload scoped to the task's own name, and that
\* payload is the one wrapped by the Action returned on the default, stop
\* and abort paths; the user logic is never called with an absent payload.
C14_AbsentInputGetsFreshPayload ==
    Finished =>
        /\ last.data # NoData
        /\ last.data \in 1..Len(last.given)
        /\ last.arg = NoData =>
              /\ last.data = Len(last.before) + 1
              /\ Len(last.given) = Len(last.before) + 1
              /\ last.given[last.data] = MultiTaskData(last.self)
              /\ last.given[last.data].scope = last.self
              /\ (last.status = "returned" /\ last.b.kind \in {"none", "stop", "abort"}) =>
                    last.result.data = last.data

\* Task t2 was invoked without payload while another payload existed, and
\* raised Abort.
C14_Witness ==
    /\ last.status = "returned"
    /\ last.arg = NoData
    /\ last.self = "t2"
    /\ last.b.kind = "abort"
    /\ Len(last.before) = 1
    /\ last.result.data = 2
    /\ heap[2].scope = "t2"

\* C15: when a payload is handed from task to task its history only grows:
\* an invocation leaves the previous history of every payload as a prefix
\* of the new one and adds at most one entry in all, and the hand-over to
\* the next task leaves the history of the payload handed over as it is.
C15_HistoryOnlyGrows ==
    [][/\ (last.status = "idle" /\ last'.status # "idle") =>
             /\ Len(heap') >= Len(heap)
             /\ \A p \in 1..Len(heap) : IsPrefix(heap[p].history, heap'[p].history)
             /\ \A p \in 1..Len(heap') :
                   /\ p > Len(heap) => Len(heap'[p].history) <= 1
                   /\ p <= Len(heap) => Len(heap'[p].history) <= Len(heap[p].history) + 1
             /\ Cardinality({p \in 1..Len(heap') :
                    heap'[p].history # (IF p <= Len(heap) THEN heap[p].history ELSE <<>>)}) <= 1
       /\ (last.status = "returned" /\ last'.status = "idle") =>
             heap'[1].history = heap[last.result.data].history]_vars

\* A payload went through t1 and then t2, each returning an Action over it.
C15_Witness ==
    /\ last.status = "returned"
    /\ last.arg # NoData
    /\ last.result.data = last.arg
    /\ heap[last.arg].history = <<"t1", "t2">>

\* C17: on the abort path with abort_callback supplied, the callback is
\* called before signal.stop_workflow() and both before the Action is
\* returned; if abort_callback raises, stop_workflow is not called in that
\* invocation.
C17_AbortCallbackBeforeStopWorkflow ==
    (Finished /\ last.b.kind = "abort" /\ last.cb.abort # "absent") =>
        IF last.cb.abort = "returns"
        THEN /\ last.log = <<Event("abort_callback", AbortWorkflow),
                             Event("stop_workflow", NoException)>>
             /\ last.status = "returned"
        ELSE /\ last.log = <<Event("abort_callback", AbortWorkflow)>>
             /\ Count(last.log, "stop_workflow") = 0
             /\ last.status = "raised"
             /\ last.error = "CallbackError"
             /\ last.result = None

\* Abort was raised and the abort_callback supplied raised in turn.
C17_Witness ==
    /\ last.status = "raised"
    /\ last.b.kind = "abort"
    /\ last.cb.abort = "raises"
    /\ Len(last.log) = 1

\* C20: an error raised by the user logic that is neither Stop nor Abort
\* leaves the wrapper unchanged: no Action, no callback, no stop_workflow,
\* and no name appended to any history.
C20_OtherErrorsPropagate ==
    (Finished /\ last.b.kind = "error") =>
        /\ last.status = "raised"
        /\ last.error = OtherError.type
        /\ last.result = None
        /\ last.log = <<>>
        /\ heap = last.ran

\* The user logic raised an ordinary error with all three callbacks
\* supplied, on a payload that carries a history.
C20_Witness ==
    /\ last.status = "raised"
    /\ last.b.kind = "error"
    /\ last.cb = [success |-> "returns", stop |-> "returns", abort |-> "returns"]
    /\ last.arg # NoData
    /\ heap[last.arg].history = <<"t1">>

====
